---- MODULE Spec2Model ----
(***************************************************************************)
(* Zobrist hashing of yasai (src/src/zobrist.rs): the Key algebra, the     *)
(* lazily built ZOBRIST_TABLE, its lookups, and the running keys a         *)
(* Position keeps from the table's constants.                              *)
(*                                                                         *)
(* A Key(u64) is the set of its set bit positions (0 = lowest bit): TLC's  *)
(* integers are 32 bits wide, a set of bits keeps all 64.                  *)
(***************************************************************************)
EXTENDS Integers, Sequences, FiniteSets, TLC

\* ------------------------------------------------------------------ bounds
NumThreads == 2
MaxNum == 20
MaxPly == 4
MaxPlyB == 2

\* ------------------------------------------------------- program constants
KeyBits == 64
MAX_HAND_NUM == 18
HANDS_LEN == 19
SEED == 2022

\* --------------------------------------------------------------------- Key
AllBits == 0..(KeyBits - 1)

\* a zero constant written as Key(1)
KeyOne == {0}

\* Key::ZERO = Key(0) and Key::COLOR = Key(1)
ZERO == {}
COLOR == {0}

not(k) == AllBits \ k

bitand(a, b) == a \cap b

\* a combination by | in place of ^
BitOr(a, b) == a \cup b

\* a combination that rotates the running key before mixing, as hash combiners do
BitXorRotate(a, b) ==
    LET r == {(i + 1) % KeyBits : i \in a}
    IN (r \ b) \cup (b \ r)

bitxor(a, b) == (a \ b) \cup (b \ a)

\* key % 2 == 0 on Key::value()
IsEven(k) == 0 \notin k

\* ------------------------------------------- domains declared outside src/
\* Square, Color and PieceType are the crate's; the game here has three
\* squares and three piece types, two of which can be held in hand.
SquareALL == <<0, 1, 2>>
ColorALL == <<"Black", "White">>
PieceTypeALL == <<"GI", "KA", "OU">>
PieceTypeALL_HAND == <<"GI", "KA">>

SquareNUM == Len(SquareALL)
ColorNUM == Len(ColorALL)
PieceTypeNUM == Len(PieceTypeALL)
PieceTypeNUM_HAND == Len(PieceTypeALL_HAND)

SquareIndex(sq) == sq
ColorIndex(c) == IF c = "Black" THEN 0 ELSE 1
PieceTypeIndex(pt) == CHOOSE i \in 0..(PieceTypeNUM - 1) : PieceTypeALL[i + 1] = pt

\* Hand::PIECE_TYPE_INDEX, a table over pt.index(), on the hand-eligible types
HandPIECE_TYPE_INDEX == [i \in 0..(PieceTypeNUM_HAND - 1) |-> i]

\* ----------------------------------------------------------------- StdRng
\* The generator is the rand crate's; the model's stand-in is a Lehmer
\* generator of 16-bit words, four words to one u64.  What the model keeps
\* of it: the stream is a function of the seed and of the number of draws.
RngNext(s) == (s * 17364) % 65521

seed_from_u64(seed) == (seed % 65520) + 1

gen(s) ==
    LET w1 == RngNext(s)
        w2 == RngNext(w1)
        w3 == RngNext(w2)
        w4 == RngNext(w3)
        w == <<w1, w2, w3, w4>>
    IN [rng |-> w4,
        out |-> {i \in AllBits : (w[(i \div 16) + 1] \div (2 ^ (i % 16))) % 2 = 1}]

\* Key(rng.gen()) with the mask of lines 72 and 79 left out
DrawKeyUnmasked(out) == out

\* Key(rng.gen()) & !Key::COLOR
DrawKey(out) == bitand(out, not(COLOR))

\* ------------------------------------------------------------ ZobristTable
ZeroBoard == [s \in 0..(SquareNUM - 1) |-> [c \in 0..(ColorNUM - 1) |-> [p \in 0..(PieceTypeNUM - 1) |-> ZERO]]]
ZeroHands == [c \in 0..(ColorNUM - 1) |-> [p \in 0..(PieceTypeNUM_HAND - 1) |-> [n \in 0..(HANDS_LEN - 1) |-> ZERO]]]

Panic == [ok |-> FALSE, key |-> ZERO]
Ok(k) == [ok |-> TRUE, key |-> k]

\* self.board[sq.index()][p.color().index()][p.piece_type().index()]
board(self, sq, p) ==
    LET i == SquareIndex(sq)
        j == ColorIndex(p.color)
        k == PieceTypeIndex(p.pt)
    IN IF i \in DOMAIN self.board /\ j \in DOMAIN self.board[i] /\ k \in DOMAIN self.board[i][j]
       THEN Ok(self.board[i][j][k])
       ELSE Panic

\* a lookup that clamps num to the last slot instead of failing
HandClamped(self, c, pt, num) ==
    LET n == IF num > MAX_HAND_NUM THEN MAX_HAND_NUM ELSE num
    IN Ok(self.hands[ColorIndex(c)][HandPIECE_TYPE_INDEX[PieceTypeIndex(pt)]][n])

\* a lookup that reads the slot of the other end of the hand piece types
HandMirrored(self, c, pt, num) ==
    LET j == (PieceTypeNUM_HAND - 1) - HandPIECE_TYPE_INDEX[PieceTypeIndex(pt)]
    IN IF num \in DOMAIN self.hands[ColorIndex(c)][j]
       THEN Ok(self.hands[ColorIndex(c)][j][num])
       ELSE Panic

\* a lookup that reads Black's slots whatever the color
HandAnyColor(self, c, pt, num) ==
    IF num \in 0..MAX_HAND_NUM
    THEN Ok(self.hands[0][HandPIECE_TYPE_INDEX[PieceTypeIndex(pt)]][num])
    ELSE Panic

\* self.hands[c.index()][Hand::PIECE_TYPE_INDEX[pt.index()]][num as usize]
hand(self, c, pt, num) ==
    LET i == ColorIndex(c)
        k == PieceTypeIndex(pt)
    IN IF i \in DOMAIN self.hands /\ k \in DOMAIN HandPIECE_TYPE_INDEX
       THEN LET j == HandPIECE_TYPE_INDEX[k]
            IN IF j \in DOMAIN self.hands[i] /\ num \in DOMAIN self.hands[i][j]
               THEN Ok(self.hands[i][j][num])
               ELSE Panic
       ELSE Panic

\* ---------------------------------------------------------------- Position
\* The position keeps the running keys as section 4.4 of the specification
\* lays down: a board constant goes into fullKey and boardKey, the two hand
\* constants of a count change and Key::COLOR into fullKey only.
Colors == {ColorALL[i] : i \in 1..Len(ColorALL)}
PieceTypes == {PieceTypeALL[i] : i \in 1..Len(PieceTypeALL)}
HandPieceTypes == {PieceTypeALL_HAND[i] : i \in 1..Len(PieceTypeALL_HAND)}
Squares == {SquareALL[i] : i \in 1..Len(SquareALL)}

NoPiece == [color |-> "none", pt |-> "none"]
Piece(c, pt) == [color |-> c, pt |-> pt]
Opposite(c) == IF c = "Black" THEN "White" ELSE "Black"

EmptyBoard == [sq \in Squares |-> NoPiece]
EmptyHands == [c \in Colors |-> [pt \in HandPieceTypes |-> 0]]

\* the starting arrangements the tests build: the empty position, the
\* standard start (here a bishop each and a silver), and one with pieces in hand
Configs == {"empty", "default", "inhand"}
ConfigBoard(cfg) ==
    IF cfg = "default"
    THEN [sq \in Squares |-> IF sq = 0 THEN Piece("Black", "KA")
                             ELSE IF sq = 1 THEN Piece("White", "KA")
                             ELSE IF sq = 2 THEN Piece("White", "GI")
                             ELSE NoPiece]
    ELSE EmptyBoard
ConfigHands(cfg) ==
    IF cfg = "inhand"
    THEN [c \in Colors |-> [pt \in HandPieceTypes |->
             IF c = "Black" THEN 1 ELSE IF pt = "GI" THEN 1 ELSE 0]]
    ELSE EmptyHands
ConfigSide(cfg) == IF cfg = "inhand" THEN "White" ELSE "Black"

NoPos == [live |-> FALSE, cfg |-> "none", board |-> EmptyBoard, hands |-> EmptyHands,
          side |-> "Black", ply |-> 0, fullKey |-> {}, boardKey |-> {}]

\* the key after the hand count of (c, pt) went from old to new
HandChange(t, k, c, pt, old, new) ==
    bitxor(bitxor(k, hand(t, c, pt, old).key), hand(t, c, pt, new).key)

RECURSIVE BoardFold(_, _, _, _)
BoardFold(t, b, i, k) ==
    IF i > Len(SquareALL) THEN k
    ELSE LET sq == SquareALL[i]
         IN BoardFold(t, b, i + 1, IF b[sq] = NoPiece THEN k ELSE bitxor(k, board(t, sq, b[sq]).key))

RECURSIVE HandFold(_, _, _, _, _)
HandFold(t, h, ci, pi, k) ==
    IF ci > Len(ColorALL) THEN k
    ELSE IF pi > Len(PieceTypeALL_HAND) THEN HandFold(t, h, ci + 1, 1, k)
    ELSE LET c == ColorALL[ci]
             pt == PieceTypeALL_HAND[pi]
             n == h[c][pt]
         IN HandFold(t, h, ci, pi + 1, IF n = 0 THEN k ELSE HandChange(t, k, c, pt, 0, n))

\* Position::new(board, hand_nums, side_to_move, ply): both keys start at
\* Key::ZERO; Black is the side whose turn adds nothing
PositionNewOf(t, cfg) ==
    LET bk == BoardFold(t, ConfigBoard(cfg), 1, ZERO)
        hk == HandFold(t, ConfigHands(cfg), 1, 1, BoardFold(t, ConfigBoard(cfg), 1, ZERO))
    IN [live |-> TRUE, cfg |-> cfg, board |-> ConfigBoard(cfg), hands |-> ConfigHands(cfg),
        side |-> ConfigSide(cfg), ply |-> 0,
        fullKey |-> IF ConfigSide(cfg) = "White" THEN bitxor(hk, COLOR) ELSE hk,
        boardKey |-> bk]

\* Move::new_normal(from, to, false, piece) and Move::new_drop(to, piece)
NormalMove(from, to, piece) == [kind |-> "normal", from |-> from, to |-> to, piece |-> piece]
DropMove(to, piece) == [kind |-> "drop", from |-> to, to |-> to, piece |-> piece]
BoardPieces == {Piece(c, pt) : c \in Colors, pt \in HandPieceTypes}
Moves ==
    {NormalMove(f, t, p) : f \in Squares, t \in Squares, p \in BoardPieces}
    \cup {DropMove(t, p) : t \in Squares, p \in BoardPieces}
MoveSquares(m) == {m.from, m.to}

\* do_move checks no turn order (the tests let Black move twice): the piece
\* must stand on from and to must be free or hold a piece of the other color
Applicable(p, m) ==
    IF m.kind = "drop"
    THEN p.board[m.to] = NoPiece /\ p.hands[m.piece.color][m.piece.pt] > 0
    ELSE /\ m.from # m.to
         /\ p.board[m.from] = m.piece
         /\ p.board[m.to] = NoPiece \/ p.board[m.to].color = Opposite(m.piece.color)

Captured(p, m) == IF m.kind = "drop" THEN NoPiece ELSE p.board[m.to]

\* Position::do_move
do_move(t, p, m) ==
    LET c == m.piece.color
        pt == m.piece.pt
        kTo == board(t, m.to, m.piece).key
    IN IF m.kind = "drop"
       THEN LET old == p.hands[c][pt]
                f1 == HandChange(t, p.fullKey, c, pt, old, old - 1)
                f2 == bitxor(f1, kTo)
            IN [p EXCEPT !.hands[c][pt] = old - 1,
                         !.board[m.to] = m.piece,
                         !.side = Opposite(p.side),
                         !.ply = @ + 1,
                         !.fullKey = bitxor(f2, COLOR),
                         !.boardKey = bitxor(p.boardKey, kTo)]
       ELSE LET cap == p.board[m.to]
                kFrom == board(t, m.from, m.piece).key
                f1 == bitxor(p.fullKey, kFrom)
                b1 == bitxor(p.boardKey, kFrom)
                old == IF cap = NoPiece THEN 0 ELSE p.hands[c][cap.pt]
                f2 == IF cap = NoPiece THEN f1
                      ELSE HandChange(t, bitxor(f1, board(t, m.to, cap).key), c, cap.pt, old, old + 1)
                b2 == IF cap = NoPiece THEN b1 ELSE bitxor(b1, board(t, m.to, cap).key)
                f3 == bitxor(f2, kTo)
                b3 == bitxor(b2, kTo)
            IN [p EXCEPT !.hands = IF cap = NoPiece THEN @ ELSE [@ EXCEPT ![c][cap.pt] = old + 1],
                         !.board = [@ EXCEPT ![m.from] = NoPiece, ![m.to] = m.piece],
                         !.side = Opposite(p.side),
                         !.ply = @ + 1,
                         !.fullKey = bitxor(f3, COLOR),
                         !.boardKey = b3]

\* Position::undo_move: the same constants combined again, last first
undo_move(t, p, m, cap) ==
    LET c == m.piece.color
        pt == m.piece.pt
        kTo == board(t, m.to, m.piece).key
        f0 == bitxor(p.fullKey, COLOR)
        f1 == bitxor(f0, kTo)
        b1 == bitxor(p.boardKey, kTo)
    IN IF m.kind = "drop"
       THEN LET now == p.hands[c][pt]
            IN [p EXCEPT !.hands[c][pt] = now + 1,
                         !.board[m.to] = NoPiece,
                         !.side = Opposite(p.side),
                         !.ply = @ - 1,
                         !.fullKey = HandChange(t, f1, c, pt, now, now + 1),
                         !.boardKey = b1]
       ELSE LET kFrom == board(t, m.from, m.piece).key
                now == IF cap = NoPiece THEN 0 ELSE p.hands[c][cap.pt]
                f2 == IF cap = NoPiece THEN f1
                      ELSE bitxor(HandChange(t, f1, c, cap.pt, now, now - 1), board(t, m.to, cap).key)
                b2 == IF cap = NoPiece THEN b1 ELSE bitxor(b1, board(t, m.to, cap).key)
            IN [p EXCEPT !.hands = IF cap = NoPiece THEN @ ELSE [@ EXCEPT ![c][cap.pt] = now - 1],
                         !.board = [@ EXCEPT ![m.from] = m.piece, ![m.to] = cap],
                         !.side = Opposite(p.side),
                         !.ply = @ - 1,
                         !.fullKey = bitxor(f2, kFrom),
                         !.boardKey = bitxor(b2, kFrom)]

\* ------------------------------------------------------------------- state
Procs == {1, 2}
Threads == 1..NumThreads
Agents == Procs \X Threads

VARIABLES
    cell,     \* per process: the Lazy's state, Incomplete | Running | Complete
    value,    \* per process: the table the Lazy holds once Complete
    builds,   \* per process: how many times the closure of line 65 was entered
    pc,       \* per thread: idle | new | board | hands | built | stored | wait | ready
    local,    \* per thread: the closure's locals (board, hands, rng, loop indices)
    obs,      \* per thread: the table instance its last access returned (0: none)
    last,     \* the last lookup made: who, what, arguments, outcome
    pos,      \* the positions of the caller, 1 and 2
    hist,     \* per position: the moves made and not unmade, oldest first
    op        \* the last operation on a position that the caller recorded

vars == <<cell, value, builds, pc, local, obs, last, pos, hist, op>>

\* outside the closure its locals do not exist; before Complete the Lazy holds no table
NoLocal == [id |-> 0, board |-> <<>>, hands |-> <<>>, rng |-> 0, sq |-> 1, c |-> 1, pt |-> 1, num |-> 0]
NoValue == [id |-> 0, board |-> <<>>, hands |-> <<>>]
NoLookup == [who |-> <<0, 0>>, fn |-> "none", args |-> <<>>, out |-> Panic]

Init ==
    /\ cell = [p \in Procs |-> "Incomplete"]
    /\ value = [p \in Procs |-> NoValue]
    /\ builds = [p \in Procs |-> 0]
    /\ pc = [a \in Agents |-> "idle"]
    /\ local = [a \in Agents |-> NoLocal]
    /\ obs = [a \in Agents |-> 0]
    /\ last = NoLookup
    /\ pos = [i \in {1, 2} |-> NoPos]
    /\ hist = [i \in {1, 2} |-> <<>>]
    /\ op = "none"

\* ------------------------------------------------- Lazy::force (once_cell)
\* a first access that starts the build without claiming the cell
ForceInitUnguarded(a) ==
    /\ pc[a] = "idle"
    /\ cell[a[1]] # "Complete"
    /\ builds' = [builds EXCEPT ![a[1]] = @ + 1]
    /\ pc' = [pc EXCEPT ![a] = "new"]
    /\ local' = [local EXCEPT ![a] = [NoLocal EXCEPT !.id = builds[a[1]] + 1]]
    /\ UNCHANGED <<cell, value, obs, last, pos, hist, op>>

\* the cell is Incomplete: this thread claims it (Incomplete -> Running) and runs the closure
ForceInit(a) ==
    /\ pc[a] = "idle"
    /\ cell[a[1]] = "Incomplete"
    /\ cell' = [cell EXCEPT ![a[1]] = "Running"]
    /\ builds' = [builds EXCEPT ![a[1]] = @ + 1]
    /\ pc' = [pc EXCEPT ![a] = "new"]
    /\ local' = [local EXCEPT ![a] = [NoLocal EXCEPT !.id = builds[a[1]] + 1]]
    /\ UNCHANGED <<value, obs, last, pos, hist, op>>

\* another thread is running the closure: block until it is done
ForceWait(a) ==
    /\ pc[a] = "idle"
    /\ cell[a[1]] = "Running"
    /\ pc' = [pc EXCEPT ![a] = "wait"]
    /\ UNCHANGED <<cell, value, builds, local, obs, last, pos, hist, op>>

Wake(a) ==
    /\ pc[a] = "wait"
    /\ cell[a[1]] = "Complete"
    /\ pc' = [pc EXCEPT ![a] = "ready"]
    /\ obs' = [obs EXCEPT ![a] = value[a[1]].id]
    /\ UNCHANGED <<cell, value, builds, local, last, pos, hist, op>>

\* the cell is Complete: the reference is returned at once
ForceFast(a) ==
    /\ pc[a] = "idle"
    /\ cell[a[1]] = "Complete"
    /\ pc' = [pc EXCEPT ![a] = "ready"]
    /\ obs' = [obs EXCEPT ![a] = value[a[1]].id]
    /\ UNCHANGED <<cell, value, builds, local, last, pos, hist, op>>

\* ------------------------------------------------ the closure, lines 66-83
\* a generator seeded from a value that differs between processes
BuildNewEntropy(a) ==
    /\ pc[a] = "new"
    /\ local' = [local EXCEPT ![a] = [@ EXCEPT !.rng = seed_from_u64(SEED + a[1])]]
    /\ pc' = [pc EXCEPT ![a] = "board"]
    /\ UNCHANGED <<cell, value, builds, obs, last, pos, hist, op>>

\* lines 66-68: the zeroed arrays and the generator seeded with 2022
BuildNew(a) ==
    /\ pc[a] = "new"
    /\ local' = [local EXCEPT ![a] = [@ EXCEPT !.board = ZeroBoard, !.hands = ZeroHands,
                                               !.rng = seed_from_u64(SEED),
                                               !.sq = 1, !.c = 1, !.pt = 1, !.num = 0]]
    /\ pc' = [pc EXCEPT ![a] = "board"]
    /\ UNCHANGED <<cell, value, builds, obs, last, pos, hist, op>>

\* lines 69-75, one iteration of the innermost loop
BoardStep(a) ==
    /\ pc[a] = "board"
    /\ LET l == local[a]
           g == gen(l.rng)
           i == SquareIndex(SquareALL[l.sq])
           j == ColorIndex(ColorALL[l.c])
           k == PieceTypeIndex(PieceTypeALL[l.pt])
           lastPt == l.pt = Len(PieceTypeALL)
           lastC == l.c = Len(ColorALL)
           lastSq == l.sq = Len(SquareALL)
       IN /\ local' = [local EXCEPT ![a] =
                          [l EXCEPT !.board[i][j][k] = DrawKey(g.out),
                                    !.rng = g.rng,
                                    !.pt = IF lastPt THEN 1 ELSE l.pt + 1,
                                    !.c = IF ~lastPt THEN l.c ELSE IF lastC THEN 1 ELSE l.c + 1,
                                    !.sq = IF lastPt /\ lastC /\ ~lastSq THEN l.sq + 1 ELSE l.sq]]
          /\ pc' = [pc EXCEPT ![a] = IF lastPt /\ lastC /\ lastSq THEN "hands" ELSE "board"]
    /\ UNCHANGED <<cell, value, builds, obs, last, pos, hist, op>>

\* lines 76-82, one iteration of the innermost loop
HandStep(a) ==
    /\ pc[a] = "hands"
    /\ LET l == local[a]
           g == gen(l.rng)
           i == ColorIndex(ColorALL[l.c])
           j == PieceTypeIndex(PieceTypeALL_HAND[l.pt])
           n == l.num
           lastNum == l.num = MAX_HAND_NUM
           lastPt == l.pt = Len(PieceTypeALL_HAND)
           lastC == l.c = Len(ColorALL)
       IN /\ local' = [local EXCEPT ![a] =
                          [l EXCEPT !.hands[i][j][n] = DrawKey(g.out),
                                    !.rng = g.rng,
                                    !.num = IF lastNum THEN 0 ELSE l.num + 1,
                                    !.pt = IF ~lastNum THEN l.pt ELSE IF lastPt THEN 1 ELSE l.pt + 1,
                                    !.c = IF lastNum /\ lastPt /\ ~lastC THEN l.c + 1 ELSE l.c]]
          /\ pc' = [pc EXCEPT ![a] = IF lastNum /\ lastPt /\ lastC THEN "built" ELSE "hands"]
    /\ UNCHANGED <<cell, value, builds, obs, last, pos, hist, op>>

\* line 83: the closure returns the table, which the Lazy writes into its slot
Finish(a) ==
    /\ pc[a] = "built"
    /\ value' = [value EXCEPT ![a[1]] = [id |-> local[a].id, board |-> local[a].board, hands |-> local[a].hands]]
    /\ pc' = [pc EXCEPT ![a] = "stored"]
    /\ local' = [local EXCEPT ![a] = NoLocal]
    /\ UNCHANGED <<cell, builds, obs, last, pos, hist, op>>

\* the Lazy turns Complete (waking the blocked threads) and returns the reference
Publish(a) ==
    /\ pc[a] = "stored"
    /\ cell' = [cell EXCEPT ![a[1]] = "Complete"]
    /\ pc' = [pc EXCEPT ![a] = "ready"]
    /\ obs' = [obs EXCEPT ![a] = value[a[1]].id]
    /\ UNCHANGED <<value, builds, local, last, pos, hist, op>>

\* ---------------------------------------------------------------- lookups
Pieces == {Piece(c, pt) : c \in Colors, pt \in PieceTypes}

\* ZOBRIST_TABLE.board(sq, p) on the reference the access returned
BoardLookup(a, sq, p) ==
    /\ pc[a] = "ready"
    /\ last' = [who |-> a, fn |-> "board", args |-> <<sq, p.color, p.pt>>, out |-> board(value[a[1]], sq, p)]
    /\ pc' = [pc EXCEPT ![a] = "idle"]
    /\ UNCHANGED <<cell, value, builds, local, obs, pos, hist, op>>

\* ZOBRIST_TABLE.hand(c, pt, num) on the reference the access returned
HandLookup(a, c, pt, num) ==
    /\ pc[a] = "ready"
    /\ last' = [who |-> a, fn |-> "hand", args |-> <<c, pt, num>>, out |-> hand(value[a[1]], c, pt, num)]
    /\ pc' = [pc EXCEPT ![a] = "idle"]
    /\ UNCHANGED <<cell, value, builds, local, obs, pos, hist, op>>

\* one process, NumThreads threads racing for the first access, then looking up
NextLazy ==
    \E a \in {1} \X Threads :
        \/ ForceInit(a)
        \/ ForceWait(a)
        \/ Wake(a)
        \/ ForceFast(a)
        \/ BuildNew(a)
        \/ BoardStep(a)
        \/ HandStep(a)
        \/ Finish(a)
        \/ Publish(a)
        \/ \E sq \in Squares, p \in Pieces : BoardLookup(a, sq, p)
        \/ \E c \in Colors, pt \in HandPieceTypes, num \in 0..MaxNum : HandLookup(a, c, pt, num)

SpecLazy == Init /\ [][NextLazy]_vars

\* two processes, each building its own table
NextDet ==
    \E a \in Procs \X {1} :
        \/ ForceInit(a)
        \/ BuildNew(a)
        \/ BoardStep(a)
        \/ HandStep(a)
        \/ Finish(a)
        \/ Publish(a)

SpecDet == Init /\ [][NextDet]_vars

\* ------------------------------------------- the table, as the loops fill it
BoardDraws == SquareNUM * ColorNUM * PieceTypeNUM
HandDraws == ColorNUM * PieceTypeNUM_HAND * HANDS_LEN

\* (a * b) % 65521 within 32-bit integers
MulMod(a, b) == (((a * (b \div 256)) % 65521) * 256 + a * (b % 256)) % 65521

RECURSIVE PowMod(_, _)
PowMod(a, e) ==
    IF e = 0 THEN 1
    ELSE LET h == PowMod(a, e \div 2)
             sq == MulMod(h, h)
         IN IF e % 2 = 0 THEN sq ELSE MulMod(sq, a)

\* the generator's state after n draws from seed 2022 (four steps of RngNext
\* to a draw), and its n-th output (from 0)
RngAfter(n) == MulMod(seed_from_u64(SEED), PowMod(17364, 4 * n))

Stream(n) == gen(RngAfter(n)).out

\* the number of the draw made for board (sq, c, pt) and for hand (c, pt, num):
\* squares, then colors, then piece types; then colors, hand piece types, counts
PosIn(seq, x) == CHOOSE i \in 1..Len(seq) : seq[i] = x
BoardDrawNo(sq, c, pt) ==
    ((PosIn(SquareALL, sq) - 1) * ColorNUM + (PosIn(ColorALL, c) - 1)) * PieceTypeNUM + (PosIn(PieceTypeALL, pt) - 1)
HandDrawNo(c, pt, num) ==
    BoardDraws + ((PosIn(ColorALL, c) - 1) * PieceTypeNUM_HAND + (PosIn(PieceTypeALL_HAND, pt) - 1)) * HANDS_LEN + num


\* the arrays once every iteration of the loops has run
FilledBoard ==
    [i \in 0..(SquareNUM - 1) |-> [j \in 0..(ColorNUM - 1) |-> [k \in 0..(PieceTypeNUM - 1) |->
        DrawKey(Stream(BoardDrawNo(SquareALL[i + 1], ColorALL[j + 1], PieceTypeALL[k + 1])))]]]
FilledHands ==
    [j \in 0..(ColorNUM - 1) |-> [k \in 0..(PieceTypeNUM_HAND - 1) |-> [n \in 0..MAX_HAND_NUM |->
        DrawKey(Stream(HandDrawNo(ColorALL[j + 1], PieceTypeALL_HAND[k + 1], n)))]]]

\* every constant a complete table stores
StoredKeys(t) ==
    {t.board[i][j][k] : i \in 0..(SquareNUM - 1), j \in 0..(ColorNUM - 1), k \in 0..(PieceTypeNUM - 1)}
    \cup {t.hands[j][k][n] : j \in 0..(ColorNUM - 1), k \in 0..(PieceTypeNUM_HAND - 1), n \in 0..MAX_HAND_NUM}

\* C5: once the table is built, every board and hand entry has bit 0 (the bit
\* of Key::COLOR) clear, so none equals Key::COLOR and XOR-combining stored
\* constants into a key leaves the key's bit 0 as it was.
C5_SideBitClear ==
    \A p \in Procs :
        cell[p] = "Complete" =>
            \A k \in StoredKeys(value[p]) :
                /\ bitand(k, COLOR) = {}
                /\ k # COLOR
                /\ \A x \in {{}, COLOR} : bitand(bitxor(x, k), COLOR) = x

\* the table is built and the generator had drawn values with bit 0 set
C5_Witness ==
    /\ cell[1] = "Complete"
    /\ \E n \in 0..(BoardDraws - 1) : 0 \in Stream(n)
    /\ \E n \in BoardDraws..(BoardDraws + HandDraws - 1) : 0 \in Stream(n)

\* C6: whatever the interleaving of the threads' first accesses, the closure
\* runs once, a thread holds a reference only to the complete table (every
\* slot written by the one build), and all threads hold the same instance.
C6_OnceInit ==
    \A p \in Procs :
        /\ builds[p] <= 1
        /\ cell[p] = "Complete" => builds[p] = 1 /\ value[p].id = 1
        /\ \A a \in Agents :
              (a[1] = p /\ (pc[a] = "ready" \/ obs[a] # 0)) =>
                  /\ cell[p] = "Complete"
                  /\ obs[a] = value[p].id
                  /\ value[p].board = FilledBoard
                  /\ value[p].hands = FilledHands
        /\ \A a, b \in Agents :
              (a[1] = p /\ b[1] = p /\ obs[a] # 0 /\ obs[b] # 0) => obs[a] = obs[b]
        /\ last.fn # "none" /\ last.who[1] = p => cell[p] = "Complete"

\* one thread has built and stored the table while another thread, whose first
\* access came during the build, is still blocked in it
C6_Witness ==
    \E a, b \in Agents :
        /\ a # b /\ a[1] = b[1]
        /\ pc[a] = "wait"
        /\ cell[a[1]] = "Complete"
        /\ obs[b] = 1
        /\ obs[a] = 0

C9_HandRange ==
    last.fn = "hand" =>
        /\ last.args[3] > MAX_HAND_NUM => last.out = Panic
        /\ last.args[3] <= MAX_HAND_NUM => last.out.ok

\* a lookup with num = 19 has failed
C9_Witness ==
    /\ last.fn = "hand"
    /\ last.args[3] = MAX_HAND_NUM + 1
    /\ ~last.out.ok

Main == <<1, 1>>
TableReady == cell[1] = "Complete" /\ pc[Main] = "ready"

\* Position::new / Position::default
PositionNew(i, cfg) ==
    /\ TableReady
    /\ ~pos[i].live
    /\ pos' = [pos EXCEPT ![i] = PositionNewOf(value[1], cfg)]
    /\ hist' = [hist EXCEPT ![i] = <<>>]
    /\ op' = "new"
    /\ UNCHANGED <<cell, value, builds, pc, local, obs, last>>

\* pos.do_move(m), the caller keeping the move, what it captured and the keys
DoMove(i, m) ==
    /\ TableReady
    /\ pos[i].live
    /\ pos[i].ply < MaxPly
    /\ Applicable(pos[i], m)
    /\ LET q == do_move(value[1], pos[i], m)
       IN /\ pos' = [pos EXCEPT ![i] = q]
          /\ hist' = [hist EXCEPT ![i] = Append(@, [m |-> m, cap |-> Captured(pos[i], m),
                                                    full |-> q.fullKey, brd |-> q.boardKey])]
    /\ op' = "do_move"
    /\ UNCHANGED <<cell, value, builds, pc, local, obs, last>>

\* pos.undo_move of the last move made
UndoMove(i) ==
    /\ TableReady
    /\ pos[i].live
    /\ hist[i] # <<>>
    /\ LET e == hist[i][Len(hist[i])]
       IN pos' = [pos EXCEPT ![i] = undo_move(value[1], pos[i], e.m, e.cap)]
    /\ hist' = [hist EXCEPT ![i] = SubSeq(@, 1, Len(@) - 1)]
    /\ op' = "undo_move"
    /\ UNCHANGED <<cell, value, builds, pc, local, obs, last>>

\* pos.do_move(m) by a caller that keeps nothing
Play(i, m) ==
    /\ TableReady
    /\ pos[i].live
    /\ Applicable(pos[i], m)
    /\ pos' = [pos EXCEPT ![i] = do_move(value[1], pos[i], m)]
    /\ UNCHANGED <<cell, value, builds, pc, local, obs, last, hist, op>>

\* the main thread's first access builds the table
BuildMain ==
    \/ ForceInit(Main)
    \/ BuildNew(Main)
    \/ BoardStep(Main)
    \/ HandStep(Main)
    \/ Finish(Main)
    \/ Publish(Main)

\* one position, moves made and unmade
NextPos ==
    \/ BuildMain
    \/ \E cfg \in Configs : PositionNew(1, cfg)
    \/ \E m \in Moves : DoMove(1, m)
    \/ UndoMove(1)

SpecPos == Init /\ [][NextPos]_vars

HistMoves(i) == {hist[i][k].m : k \in 1..Len(hist[i])}
SquareDisjoint(m, n) == MoveSquares(m) \cap MoveSquares(n) = {}

\* two positions from the same start: the first makes mutually square-disjoint
\* moves, the second makes the same moves in any order it can
NextJoined ==
    \/ BuildMain
    \/ \E cfg \in Configs : PositionNew(1, cfg)
    \/ pos[1].live /\ PositionNew(2, pos[1].cfg)
    \/ \E m \in Moves : (\A n \in HistMoves(1) : SquareDisjoint(m, n)) /\ DoMove(1, m)
    \/ \E m \in HistMoves(1) \ HistMoves(2) : DoMove(2, m)

SpecJoined == Init /\ [][NextJoined]_vars

\* two positions from the same start, each played on its own line of moves
NextSame ==
    \/ BuildMain
    \/ \E cfg \in Configs : PositionNew(1, cfg)
    \/ pos[1].live /\ PositionNew(2, pos[1].cfg)
    \/ \E m \in Moves : pos[1].ply < MaxPly /\ Play(1, m)
    \/ \E m \in Moves : pos[2].ply < MaxPlyB /\ Play(2, m)

SpecSame == Init /\ [][NextSame]_vars

SameArrangement(p, q) == p.board = q.board /\ p.hands = q.hands /\ p.side = q.side

\* C1: two positions from the same start that made the same mutually
\* square-disjoint moves, in whatever order, and stand at the same board,
\* hands and side, have the same fullKey.
C1_OrderIndependent ==
    (/\ pos[1].live /\ pos[2].live
     /\ Len(hist[1]) = Len(hist[2])
     /\ HistMoves(1) = HistMoves(2)
     /\ \A m, n \in HistMoves(1) : m # n => SquareDisjoint(m, n)
     /\ SameArrangement(pos[1], pos[2]))
    => pos[1].fullKey = pos[2].fullKey

\* three square-disjoint moves made in two different orders
C1_Witness ==
    /\ pos[1].live /\ pos[2].live
    /\ Len(hist[1]) = 3 /\ Len(hist[2]) = 3
    /\ HistMoves(1) = HistMoves(2)
    /\ hist[1][1].m # hist[2][1].m
    /\ hist[1][3].m # hist[2][3].m
    /\ SameArrangement(pos[1], pos[2])
    /\ pos[1].fullKey = pos[2].fullKey

StoredAndColor == StoredKeys(value[1]) \cup {COLOR}

\* C2: combining a constant into a running key twice gives the key back, so
\* after moves are unmade, last first, fullKey and boardKey are what they
\* were before those moves.
C2_Invertible ==
    pos[1].live =>
        /\ \A y \in StoredAndColor :
              /\ bitxor(bitxor(pos[1].fullKey, y), y) = pos[1].fullKey
              /\ bitxor(bitxor(pos[1].boardKey, y), y) = pos[1].boardKey
        /\ pos[1].ply = Len(hist[1])
        /\ hist[1] # <<>> =>
              /\ pos[1].fullKey = hist[1][Len(hist[1])].full
              /\ pos[1].boardKey = hist[1][Len(hist[1])].brd
        /\ hist[1] = <<>> =>
              /\ pos[1].fullKey = PositionNewOf(value[1], pos[1].cfg).fullKey
              /\ pos[1].boardKey = PositionNewOf(value[1], pos[1].cfg).boardKey
              /\ pos[1] = PositionNewOf(value[1], pos[1].cfg)

\* a capture and another move have been unmade, back to the keys after one move
C2_Witness ==
    /\ op = "undo_move"
    /\ Len(hist[1]) = 1
    /\ pos[1].cfg = "default"
    /\ hist[1][1].cap # NoPiece
    /\ pos[1].fullKey = hist[1][1].full
    /\ pos[1].fullKey # {}

\* C3: each move flips the lowest bit of fullKey: consecutive positions differ
\* in it, positions two moves apart agree, and from a start with an even key
\* the key is odd after an odd number of moves and even after an even number.
C3_SideParity ==
    pos[1].live =>
        LET startEven == ConfigSide(pos[1].cfg) = "Black"
        IN /\ IsEven(pos[1].fullKey) <=> (startEven <=> (pos[1].ply % 2 = 0))
           /\ \A k \in 1..Len(hist[1]) :
                 IsEven(hist[1][k].full) <=> (startEven <=> (k % 2 = 0))
           /\ \A k \in 1..(Len(hist[1]) - 1) :
                 IsEven(hist[1][k].full) # IsEven(hist[1][k + 1].full)
           /\ \A k \in 1..(Len(hist[1]) - 2) :
                 IsEven(hist[1][k].full) = IsEven(hist[1][k + 2].full)

\* three moves from the standard start: odd, even, odd
C3_Witness ==
    /\ pos[1].live
    /\ pos[1].cfg = "default"
    /\ Len(hist[1]) = 3
    /\ ~IsEven(hist[1][1].full)
    /\ IsEven(hist[1][2].full)
    /\ ~IsEven(pos[1].fullKey)

\* C4: two positions from the same start with the same board and side to
\* move but different hands have the same boardKey and different fullKeys.
C4_SameBoard ==
    (/\ pos[1].live /\ pos[2].live
     /\ pos[1].board = pos[2].board
     /\ pos[1].side = pos[2].side
     /\ pos[1].hands # pos[2].hands)
    => /\ pos[1].boardKey = pos[2].boardKey
       /\ pos[1].fullKey # pos[2].fullKey

\* the bishop taken is held by White in one position and by Black in the other
C4_Witness ==
    /\ pos[1].live /\ pos[2].live
    /\ pos[1].cfg = "default"
    /\ pos[1].board = pos[2].board
    /\ pos[1].side = pos[2].side
    /\ pos[1].hands["White"]["KA"] = 1 /\ pos[1].hands["Black"]["KA"] = 0
    /\ pos[2].hands["Black"]["KA"] = 1 /\ pos[2].hands["White"]["KA"] = 0

\* C7: the position with an empty board, empty hands and Black to move has
\* key() == 0, although the table holds constants for hand count 0.
C7_EmptyZero ==
    (/\ pos[1].live
     /\ pos[1].board = EmptyBoard
     /\ pos[1].hands = EmptyHands
     /\ pos[1].side = "Black")
    => pos[1].fullKey = {}

\* the empty position has been built from a table whose count-0 constants are not zero
C7_Witness ==
    /\ pos[1].live
    /\ pos[1].cfg = "empty"
    /\ pos[1].board = EmptyBoard /\ pos[1].hands = EmptyHands
    /\ \A c \in Colors, pt \in HandPieceTypes : hand(value[1], c, pt, 0).key # {}

====
